---- MODULE Spec2Model ----
(***************************************************************************)
(* A model of the cover-analysis pipeline of src/test.py: download_cover,  *)
(* get_average_color, rgb_to_wavelength, is_image_dark,                    *)
(* process_nature_covers and generate_html, run over a prefix of the       *)
(* hard-coded issues_dict, against an HTTP server that answers each        *)
(* request with 200 and some body or with 404, and a thumbnail directory   *)
(* in which a save may fail.                                               *)
(*                                                                         *)
(* An image is a raster: a sequence of <<r, g, b>> pixels.  A file is a    *)
(* record [kind, pixels]; kind is "absent" (no file at the path), "garbage"*)
(* (bytes PIL cannot decode) or "image".  Wavelengths are exact rationals  *)
(* [num, den] where the code computes floats.                              *)
(***************************************************************************)
EXTENDS Integers, Sequences, FiniteSets, TLC

\* ------------------------------------------------------------- bounds
\* How many (volume, issue) pairs of issues_dict a run iterates over.
NumPairs == 3
\* How many times the script is executed against the same directories.
MaxRuns == 2
\* How many times generate_html is called on one covers_data list.
MaxRenders == 2
\* How many thumbnail saves may fail over all runs.
MaxSaveFailures == 1
\* The number of pixels standing for the 64 x 64 raster of a thumbnail.
ThumbPixels == 2

\* ------------------------------------------------------- configuration
OUTPUT_DIR == "nature_covers"
THUMBNAIL_DIR == "nature_thumbnails"
DefaultThreshold == 100
WavelengthMin == 380
WavelengthMax == 700
HTTP_OK == 200

\* The first volumes of issues_dict, in the dictionary's insertion order.
issues_dict ==
    << <<"636", <<"8041", "8042", "8043">> >>,
       <<"635", <<"8037", "8038", "8039", "8040">> >> >>

RECURSIVE Flatten(_)
\* The (volume, issue) pairs in the order of the two nested for loops.
Flatten(d) ==
    IF d = <<>> THEN <<>>
    ELSE [k \in 1..Len(d[1][2]) |-> <<d[1][1], d[1][2][k]>>] \o Flatten(Tail(d))

Pairs == SubSeq(Flatten(issues_dict), 1, NumPairs)

\* ---------------------------------------------------------------- paths
CoverPath(volume, issue) ==
    [scheme |-> "rel", dir |-> OUTPUT_DIR, volume |-> volume, issue |-> issue]

\* THUMBNAIL_DIR / f"{image_path.stem}_thumbnail.jpg"
ThumbnailPath(image_path) ==
    [scheme |-> "rel", dir |-> THUMBNAIL_DIR,
     volume |-> image_path.volume, issue |-> image_path.issue]

\* thumbnail_path.resolve().as_uri(): a "file:///..." string.
AsUri(path) == [path EXCEPT !.scheme = "file_uri"]

NatureUrl(volume, issue) == <<"https://www.nature.com/nature/volumes", volume, "issues", issue>>

CoverPaths == {CoverPath(Pairs[k][1], Pairs[k][2]) : k \in 1..NumPairs}
ThumbPaths == {ThumbnailPath(p) : p \in CoverPaths}
AllPaths == CoverPaths \cup ThumbPaths

\* ---------------------------------------------------------------- files
NoFile == [kind |-> "absent", pixels |-> <<>>]
Garbage == [kind |-> "garbage", pixels |-> <<>>]
ImageFile(raster) == [kind |-> "image", pixels |-> raster]

Blue == <<0, 0, 255>>
Red == <<255, 0, 0>>
Gray99 == <<99, 99, 99>>
Gray101 == <<101, 101, 101>>

\* The cover rasters the server may send.
CoverRasters ==
    { <<Blue, Blue, Blue, Blue>>,
      <<Red, Red, Red, Red>>,
      <<Gray99, Gray99, Gray101, Gray101>> }

\* What requests.get may answer: a status and a body.
Responses ==
    {[status |-> HTTP_OK, body |-> ImageFile(r)] : r \in CoverRasters}
    \cup {[status |-> HTTP_OK, body |-> Garbage],
          [status |-> 404, body |-> Garbage]}

VARIABLES
    disk,            \* path -> file: the two cache directories
    writes,          \* path -> how many times a file was written there
    calls,           \* cover path -> the download_cover calls made for it
    covers_data,     \* the list process_nature_covers builds and returns
    csv,             \* the rows last written to COVERS_FILE
    dark_covers,     \* generate_html's dark group
    light_covers,    \* generate_html's light group
    pc,              \* "download" | "extract" | "html" | "done" | "crashed"
    idx,             \* the position of the loops in Pairs
    image_path,      \* the path download_cover returned for Pairs[idx]
    run,             \* which execution of the script this is
    renders,         \* generate_html calls made on this covers_data
    save_failures,   \* thumbnail saves that failed so far
    probe            \* an RGB triple and the wavelength computed for it

pipeline_vars == <<disk, writes, calls, covers_data, csv, dark_covers,
                   light_covers, pc, idx, image_path, run, renders,
                   save_failures>>
vars == <<pipeline_vars, probe>>

PathExists(path) ==
    /\ path.scheme = "rel"
    /\ path \in DOMAIN disk
    /\ disk[path].kind # "absent"

\* ----------------------------------------------------------- rationals
RECURSIVE GCD(_, _)
GCD(a, b) == IF b = 0 THEN a ELSE GCD(b, a % b)
Abs(a) == IF a < 0 THEN -a ELSE a

\* The fraction num/den (den > 0) in lowest terms: one record per value.
Rat(num, den) ==
    [num |-> num \div GCD(Abs(num), den), den |-> den \div GCD(Abs(num), den)]
RatLess(a, b) == a.num * b.den < b.num * a.den
RatEq(a, b) == a.num * b.den = b.num * a.den
RatLeq(a, b) == a.num * b.den <= b.num * a.den

Max3(a, b, c) == IF a >= b /\ a >= c THEN a ELSE IF b >= c THEN b ELSE c
Min3(a, b, c) == IF a <= b /\ a <= c THEN a ELSE IF b <= c THEN b ELSE c
Min2(a, b) == IF a <= b THEN a ELSE b

RECURSIVE SumSeq(_)
SumSeq(s) == IF s = <<>> THEN 0 ELSE s[1] + SumSeq(Tail(s))

Channel(raster, c) == [k \in 1..Len(raster) |-> raster[k][c]]

\* ------------------------------------------------------ image functions
\* Image.open(image_path): raises for a missing or an undecodable file.
CanOpen(file) == file.kind = "image"

\* np.mean(img_array, axis=(0, 1)).astype(int): the mean of each channel,
\* truncated.
AverageColor(raster) ==
    << SumSeq(Channel(raster, 1)) \div Len(raster),
       SumSeq(Channel(raster, 2)) \div Len(raster),
       SumSeq(Channel(raster, 3)) \div Len(raster) >>

\* img.resize((64, 64)): the raster reduced to ThumbPixels pixels, each the
\* mean of a block of the source pixels.
Resize(raster) ==
    LET size == Min2(ThumbPixels, Len(raster))
        block == Len(raster) \div size
    IN  [k \in 1..size |->
            AverageColor(SubSeq(raster, (k - 1) * block + 1, k * block))]

\* convert("L"): PIL's ITU-R 601-2 luma transform of one pixel.
GrayLevel(pixel) ==
    (pixel[1] * 19595 + pixel[2] * 38470 + pixel[3] * 7471 + 32768) \div 65536

\* np.mean(np.array(img)) of the grayscale raster, as an exact fraction.
GrayMean(raster) ==
    Rat(SumSeq([k \in 1..Len(raster) |-> GrayLevel(raster[k])]), Len(raster))

IsImageDarkInclusive(raster, threshold) ==
    RatLeq(GrayMean(raster), Rat(threshold, 1))

is_image_dark(raster, threshold) ==
    RatLess(GrayMean(raster), Rat(threshold, 1))

\* colorsys.rgb_to_hsv's hue of r/255, g/255, b/255, as the fraction
\* num/den in [0, 1).  With rangec = maxc - minc the library computes
\* rc, gc, bc = (maxc - c) / rangec, picks bc - gc, 2 + rc - bc or
\* 4 + gc - rc by the first channel equal to maxc, and takes (h / 6) % 1.
Hue(r, g, b) ==
    LET maxc == Max3(r, g, b)
        minc == Min3(r, g, b)
        rangec == maxc - minc
        rc == maxc - r
        gc == maxc - g
        bc == maxc - b
        h == IF r = maxc THEN bc - gc
             ELSE IF g = maxc THEN 2 * rangec + rc - bc
             ELSE 4 * rangec + gc - rc
    IN  IF minc = maxc THEN Rat(0, 1)
        ELSE Rat(h % (6 * rangec), 6 * rangec)

RgbToWavelengthNoWrap(rgb) ==
    LET maxc == Max3(rgb[1], rgb[2], rgb[3])
        rangec == maxc - Min3(rgb[1], rgb[2], rgb[3])
        h == IF rgb[1] = maxc THEN rgb[2] - rgb[3]
             ELSE IF rgb[2] = maxc THEN 2 * rangec + rgb[3] - rgb[1]
             ELSE 4 * rangec + rgb[1] - rgb[2]
    IN  IF rangec = 0 THEN Rat(WavelengthMin, 1)
        ELSE Rat(WavelengthMin * 6 * rangec + h * (WavelengthMax - WavelengthMin),
                 6 * rangec)

\* 380 + (h * (700 - 380))
rgb_to_wavelength(rgb) ==
    LET h == Hue(rgb[1], rgb[2], rgb[3])
    IN  Rat(WavelengthMin * h.den + h.num * (WavelengthMax - WavelengthMin), h.den)

\* ------------------------------------------------------------- sorting
RECURSIVE InsertBeforeEqual(_, _)
InsertBeforeEqual(sorted, x) ==
    IF sorted = <<>> THEN <<x>>
    ELSE IF RatLeq(x.wavelength, sorted[1].wavelength) THEN <<x>> \o sorted
    ELSE <<sorted[1]>> \o InsertBeforeEqual(Tail(sorted), x)

RECURSIVE UnstableSort(_)
UnstableSort(covers) ==
    IF covers = <<>> THEN <<>>
    ELSE InsertBeforeEqual(UnstableSort(SubSeq(covers, 1, Len(covers) - 1)),
                           covers[Len(covers)])

RECURSIVE InsertAfterEqual(_, _)
\* x placed behind every element whose key is not greater than its own.
InsertAfterEqual(sorted, x) ==
    IF sorted = <<>> THEN <<x>>
    ELSE IF RatLess(x.wavelength, sorted[1].wavelength) THEN <<x>> \o sorted
    ELSE <<sorted[1]>> \o InsertAfterEqual(Tail(sorted), x)

RECURSIVE SortByWavelength(_)
\* list.sort(key=lambda x: x["wavelength"]): ascending and stable.
SortByWavelength(covers) ==
    IF covers = <<>> THEN <<>>
    ELSE InsertAfterEqual(SortByWavelength(SubSeq(covers, 1, Len(covers) - 1)),
                          covers[Len(covers)])

\* ------------------------------------------------------- download_cover
FetchAlways(path) == TRUE

\* if not image_path.exists():
NeedsFetch(path) == ~PathExists(path)

PersistsNever(status) == FALSE

\* if response.status_code == 200:
ShouldPersist(status) == status = HTTP_OK

Call(requested, status, returned) ==
    [requested |-> requested, status |-> status, returned |-> returned]

CurrentPath == CoverPath(Pairs[idx][1], Pairs[idx][2])

\* download_cover(volume, issue_number) for the pair the loops are at: one
\* GET when no file is at the path, its body written on a 200; the path is
\* returned whatever happened.
DownloadCover ==
    /\ pc = "download"
    /\ IF NeedsFetch(CurrentPath)
       THEN \E response \in Responses :
               /\ calls' = [calls EXCEPT ![CurrentPath] =
                               Append(@, Call(TRUE, response.status, CurrentPath))]
               /\ IF ShouldPersist(response.status)
                  THEN /\ disk' = [disk EXCEPT ![CurrentPath] = response.body]
                       /\ writes' = [writes EXCEPT ![CurrentPath] = @ + 1]
                  ELSE UNCHANGED <<disk, writes>>
       ELSE /\ calls' = [calls EXCEPT ![CurrentPath] =
                            Append(@, Call(FALSE, 0, CurrentPath))]
            /\ UNCHANGED <<disk, writes>>
    /\ image_path' = CurrentPath
    /\ pc' = "extract"
    /\ UNCHANGED <<covers_data, csv, dark_covers, light_covers, idx, run,
                   renders, save_failures, probe>>

\* ---------------------------------------------------- get_average_color
\* Image.open(image_path) stands outside the try block and the caller's
\* "if image_path:" is true of every Path: a missing or undecodable cover
\* raises out of process_nature_covers and asyncio.run, and the script ends.
ImageOpenRaises ==
    /\ pc = "extract"
    /\ ~CanOpen(disk[image_path])
    /\ pc' = "crashed"
    /\ covers_data' = <<>>
    /\ UNCHANGED <<disk, writes, calls, csv, dark_covers, light_covers, idx,
                   image_path, run, renders, save_failures, probe>>

Sentinel == <<0, 0, 0>>

\* What get_average_color returns: the colour and the thumbnail path.  A
\* failed save gives the sentinel colour; it is taken to leave the thumbnail
\* directory as it was, so a thumbnail of an earlier run may still be there.
get_average_color(file, path, save_ok) ==
    [average_color |-> IF save_ok THEN AverageColor(Resize(file.pixels))
                       ELSE Sentinel,
     thumbnail_path |-> ThumbnailPath(path)]

\* The dict appended to covers_data.
CoverRecord(path, extracted) ==
    [volume |-> path.volume,
     issue |-> path.issue,
     image_path |-> path,
     thumbnail_path |-> extracted.thumbnail_path,
     dominant_color |-> extracted.average_color,
     wavelength |-> rgb_to_wavelength(extracted.average_color),
     nature_url |-> NatureUrl(path.volume, path.issue)]

\* The rest of the loop body for a cover that opens: the thumbnail is saved
\* (or the save fails), the record is appended; after the last pair the list
\* is sorted and written to COVERS_FILE.
AssembleRecord ==
    /\ pc = "extract"
    /\ CanOpen(disk[image_path])
    /\ \E save_ok \in {TRUE} \cup {b \in {FALSE} : save_failures < MaxSaveFailures} :
          LET extracted == get_average_color(disk[image_path], image_path, save_ok)
              appended == Append(covers_data, CoverRecord(image_path, extracted))
          IN  /\ IF save_ok
                 THEN /\ disk' = [disk EXCEPT ![extracted.thumbnail_path] =
                                     ImageFile(Resize(disk[image_path].pixels))]
                      /\ writes' = [writes EXCEPT ![extracted.thumbnail_path] = @ + 1]
                      /\ UNCHANGED save_failures
                 ELSE /\ save_failures' = save_failures + 1
                      /\ UNCHANGED <<disk, writes>>
              /\ IF idx < NumPairs
                 THEN /\ covers_data' = appended
                      /\ idx' = idx + 1
                      /\ pc' = "download"
                      /\ UNCHANGED csv
                 ELSE /\ covers_data' = SortByWavelength(appended)
                      /\ csv' = SortByWavelength(appended)
                      /\ pc' = "html"
                      /\ UNCHANGED idx
    /\ UNCHANGED <<calls, dark_covers, light_covers, image_path, run, renders,
                   probe>>

\* -------------------------------------------------------- generate_html
RenderedReadOnly(cover) == cover

\* What the loop body leaves in the dict: thumbnail_path_name is set to the
\* thumbnail_path found, and thumbnail_path is replaced by the file URI when
\* the thumbnail exists.
Rendered(cover) ==
    LET named == ("thumbnail_path_name" :> cover.thumbnail_path) @@ cover
    IN  IF PathExists(cover.thumbnail_path)
        THEN [named EXCEPT !.thumbnail_path = AsUri(cover.thumbnail_path)]
        ELSE named

RenderStepBoth(acc, cover) ==
    IF PathExists(cover.thumbnail_path)
    THEN [covers |-> Append(acc.covers, Rendered(cover)),
          dark |-> IF is_image_dark(disk[cover.thumbnail_path].pixels, DefaultThreshold)
                   THEN Append(acc.dark, Rendered(cover)) ELSE acc.dark,
          light |-> Append(acc.light, Rendered(cover))]
    ELSE [acc EXCEPT !.covers = Append(@, Rendered(cover))]

\* One iteration of "for cover in covers_data".
RenderStep(acc, cover) ==
    IF PathExists(cover.thumbnail_path)
    THEN IF is_image_dark(disk[cover.thumbnail_path].pixels, DefaultThreshold)
         THEN [acc EXCEPT !.covers = Append(@, Rendered(cover)),
                          !.dark = Append(@, Rendered(cover))]
         ELSE [acc EXCEPT !.covers = Append(@, Rendered(cover)),
                          !.light = Append(@, Rendered(cover))]
    ELSE [acc EXCEPT !.covers = Append(@, Rendered(cover))]

RECURSIVE RenderLoop(_)
RenderLoop(covers) ==
    IF covers = <<>> THEN [covers |-> <<>>, dark |-> <<>>, light |-> <<>>]
    ELSE RenderStep(RenderLoop(SubSeq(covers, 1, Len(covers) - 1)),
                    covers[Len(covers)])

\* generate_html(covers_data): after process_nature_covers, and again on the
\* same list.
GenerateHtml ==
    /\ \/ pc = "html"
       \/ pc = "done" /\ renders < MaxRenders
    /\ LET result == RenderLoop(covers_data)
       IN  /\ covers_data' = result.covers
           /\ dark_covers' = SortByWavelength(result.dark)
           /\ light_covers' = SortByWavelength(result.light)
    /\ renders' = renders + 1
    /\ pc' = "done"
    /\ UNCHANGED <<disk, writes, calls, csv, idx, image_path, run,
                   save_failures, probe>>

\* The script is executed again: a new process, the same directories.
RunAgain ==
    /\ pc \in {"done", "crashed"}
    /\ run < MaxRuns
    /\ run' = run + 1
    /\ pc' = "download"
    /\ idx' = 1
    /\ covers_data' = <<>>
    /\ dark_covers' = <<>>
    /\ light_covers' = <<>>
    /\ renders' = 0
    /\ UNCHANGED <<disk, writes, calls, csv, image_path, save_failures, probe>>

NoProbe == [rgb |-> Sentinel, applied |-> FALSE, wavelength |-> Rat(0, 1)]

InitPipeline ==
    /\ disk = [p \in AllPaths |-> NoFile]
    /\ writes = [p \in AllPaths |-> 0]
    /\ calls = [p \in CoverPaths |-> <<>>]
    /\ covers_data = <<>>
    /\ csv = <<>>
    /\ dark_covers = <<>>
    /\ light_covers = <<>>
    /\ pc = "download"
    /\ idx = 1
    /\ image_path = CoverPath(Pairs[1][1], Pairs[1][2])
    /\ run = 1
    /\ renders = 0
    /\ save_failures = 0

Init ==
    /\ InitPipeline
    /\ probe = NoProbe

Next ==
    \/ DownloadCover
    \/ ImageOpenRaises
    \/ AssembleRecord
    \/ GenerateHtml
    \/ RunAgain

Spec == Init /\ [][Next]_vars

\* ------------------------------------------- rgb_to_wavelength on its own
\* The channel values tried: ChannelSteps + 1 evenly spread levels and the
\* neighbours of the two ends.
ChannelSteps == 5
Channels == {(255 * k) \div ChannelSteps : k \in 0..ChannelSteps} \cup {1, 254}
Triples == {<<r, g, b>> : r \in Channels, g \in Channels, b \in Channels}

InitMapper ==
    /\ InitPipeline
    /\ probe \in {[rgb |-> t, applied |-> FALSE, wavelength |-> Rat(0, 1)] :
                     t \in Triples}

\* rgb_to_wavelength(rgb) is called on the triple.
ApplyMapper ==
    /\ ~probe.applied
    /\ probe' = [probe EXCEPT !.applied = TRUE,
                              !.wavelength = rgb_to_wavelength(probe.rgb)]
    /\ UNCHANGED pipeline_vars

NextMapper == ApplyMapper

SpecMapper == InitMapper /\ [][NextMapper]_vars

\* =============================================================== claims
Last(s) == s[Len(s)]
IdOf(cover) == <<cover.volume, cover.issue>>
Ids(covers) == {IdOf(covers[k]) : k \in 1..Len(covers)}
PathId(path) == <<path.volume, path.issue>>
\* The position of a record's pair in the iteration over issues_dict.
PairIndex(cover) == CHOOSE k \in 1..NumPairs : Pairs[k] = IdOf(cover)

\* The last download_cover call for the path asked the server and got a
\* status other than 200, and no cover file is at the path.
FetchFailed(path) ==
    /\ calls[path] # <<>>
    /\ Last(calls[path]).requested
    /\ Last(calls[path]).status # HTTP_OK
    /\ ~PathExists(path)

\* C1: a pair whose fetch returned a non-200 status and has no cover file on
\* disk never stops the run (the script does not end at that pair), and once
\* the run is complete that pair is in none of the global list, the CSV rows,
\* the dark group and the light group.
C1_FailedFetchIsSkipped ==
    /\ pc = "crashed" => ~FetchFailed(image_path)
    /\ pc = "done" =>
          \A p \in CoverPaths :
             FetchFailed(p) =>
                PathId(p) \notin Ids(covers_data) \cup Ids(csv)
                                 \cup Ids(dark_covers) \cup Ids(light_covers)

\* C2 as stated: of two consecutive download_cover calls for one identifier
\* the second makes no request, whatever the server answered the first, and
\* both return the same path.
C2_SecondCallNeverRequests ==
    \A p \in CoverPaths :
       \A k \in 2..Len(calls[p]) :
          /\ ~calls[p][k].requested
          /\ calls[p][k].returned = calls[p][k - 1].returned

\* C2 amended: both calls return the same path, and the second call makes a
\* request exactly when the first one made a request that was not answered
\* with 200; after a cache hit or a 200 the pair of calls makes at most one
\* request.
C2_SecondCallRequestsOnlyAfterFailure ==
    \A p \in CoverPaths :
       \A k \in 2..Len(calls[p]) :
          /\ calls[p][k].returned = calls[p][k - 1].returned
          /\ calls[p][k].returned = p
          /\ calls[p][k].requested <=>
                (calls[p][k - 1].requested /\ calls[p][k - 1].status # HTTP_OK)

C2_Witness ==
    \E p \in CoverPaths :
       /\ Len(calls[p]) >= 2
       /\ calls[p][1].requested
       /\ calls[p][1].status = HTTP_OK
       /\ ~calls[p][2].requested

\* A record of covers_data' for the path, with the colour and wavelength of
\* the file that is at the path before the step (the sentinel colour when the
\* thumbnail save failed in the step).
SignatureFromFile(path) ==
    \E k \in 1..Len(covers_data') :
       /\ IdOf(covers_data'[k]) = PathId(path)
       /\ covers_data'[k].dominant_color =
             IF save_failures' > save_failures THEN Sentinel
             ELSE AverageColor(Resize(disk[path].pixels))
       /\ covers_data'[k].wavelength =
             rgb_to_wavelength(covers_data'[k].dominant_color)

C4_BothDirectoriesAppendOnly ==
    [][\A p \in AllPaths : PathExists(p) => writes'[p] = writes[p]]_vars

\* C4 amended: the cover directory is append-only (a cover file, once at its
\* path, is never written again and keeps its content); a thumbnail is
\* written by every get_average_color call whose save succeeds, whether or
\* not a thumbnail is already at the path.
C4_CoversAppendOnlyThumbnailsRewritten ==
    [][ /\ \A p \in CoverPaths :
              PathExists(p) => writes'[p] = writes[p] /\ disk'[p] = disk[p]
        /\ (pc = "extract" /\ pc' # "crashed" /\ save_failures' = save_failures) =>
              writes'[ThumbnailPath(image_path)] =
                 writes[ThumbnailPath(image_path)] + 1
      ]_vars

C4_Witness ==
    \E p \in CoverPaths :
       /\ Len(calls[p]) >= 2
       /\ writes[p] = 1
       /\ writes[ThumbnailPath(p)] >= 2

InGroup(group, cover) == \E k \in 1..Len(group) : IdOf(group[k]) = IdOf(cover)
NoRepeats(group) == Cardinality(Ids(group)) = Len(group)

\* C5: after generate_html every record whose thumbnail path (as the record
\* carried it into the call) names an existing file is in exactly one of the
\* dark and light groups, every other record is in neither, no record is
\* twice in a group, and the identifiers of the two groups together are those
\* of the records with an existing thumbnail.
C5_PartitionCompleteness ==
    pc = "done" =>
       /\ \A k \in 1..Len(covers_data) :
             LET cover == covers_data[k]
             IN  IF PathExists(cover.thumbnail_path_name)
                 THEN InGroup(dark_covers, cover) <=> ~InGroup(light_covers, cover)
                 ELSE ~InGroup(dark_covers, cover) /\ ~InGroup(light_covers, cover)
       /\ NoRepeats(dark_covers) /\ NoRepeats(light_covers)
       /\ Ids(dark_covers) \cup Ids(light_covers) =
             {IdOf(covers_data[k]) : k \in
                 {j \in 1..Len(covers_data) :
                     PathExists(covers_data[j].thumbnail_path_name)}}

C5_Witness ==
    /\ pc = "done"
    /\ dark_covers # <<>>
    /\ light_covers # <<>>
    /\ \E k \in 1..Len(covers_data) :
          ~PathExists(covers_data[k].thumbnail_path_name)

\* Ascending in wavelength, and equal wavelengths in iteration order.
SortedStable(covers) ==
    \A i, j \in 1..Len(covers) :
       i < j =>
          \/ RatLess(covers[i].wavelength, covers[j].wavelength)
          \/ /\ RatEq(covers[i].wavelength, covers[j].wavelength)
             /\ PairIndex(covers[i]) < PairIndex(covers[j])

\* C6: once process_nature_covers has returned, the global list and the CSV
\* rows are in non-decreasing wavelength order with equal wavelengths in the
\* order of iteration over issues_dict, and after generate_html so are the
\* dark and the light group.
C6_StableWavelengthOrder ==
    /\ pc \in {"html", "done"} =>
          /\ SortedStable(covers_data)
          /\ SortedStable(csv)
          /\ Len(covers_data) = NumPairs
    /\ pc = "done" => SortedStable(dark_covers) /\ SortedStable(light_covers)

\* A group holding a tie, and a record that iteration reached after a record
\* of greater wavelength.
C6_Witness ==
    /\ pc = "done"
    /\ \E i, j \in 1..Len(dark_covers) :
          /\ i < j
          /\ RatEq(dark_covers[i].wavelength, dark_covers[j].wavelength)
    /\ \E i, j \in 1..Len(dark_covers) :
          /\ i < j
          /\ PairIndex(dark_covers[i]) > PairIndex(dark_covers[j])

\* The record appended for the path in the step: sentinel colour and the
\* thumbnail path.
SentinelRecord(path) ==
    \E k \in 1..Len(covers_data') :
       /\ IdOf(covers_data'[k]) = PathId(path)
       /\ covers_data'[k].dominant_color = Sentinel
       /\ covers_data'[k].thumbnail_path = ThumbnailPath(path)

\* C7: a decode error is never fatal: when the cover file cannot be decoded,
\* or the thumbnail save fails, get_average_color does not raise, the record
\* gets the sentinel colour (0,0,0) with the thumbnail path, and the run goes
\* on.
C7_DecodeErrorIsNotFatal ==
    [][ /\ (pc = "extract" /\ disk[image_path].kind = "garbage") =>
              pc' # "crashed" /\ SentinelRecord(image_path)
        /\ (pc = "extract" /\ save_failures' > save_failures) =>
              pc' # "crashed" /\ SentinelRecord(image_path)
      ]_vars

GraySum(raster) == SumSeq([k \in 1..Len(raster) |-> GrayLevel(raster[k])])

\* C8: after generate_html, which calls is_image_dark with the default
\* threshold 100, a record with an existing thumbnail is in the dark group
\* exactly when the sum of the thumbnail's gray levels is less than 100 times
\* the number of its pixels (the mean is strictly below the threshold), and
\* in the light group exactly when it is not: a mean of exactly 100 is light.
C8_StrictThreshold ==
    pc = "done" =>
       \A k \in 1..Len(covers_data) :
          LET cover == covers_data[k]
              path == cover.thumbnail_path_name
          IN  PathExists(path) =>
                 /\ InGroup(dark_covers, cover) <=>
                       GraySum(disk[path].pixels) <
                          DefaultThreshold * Len(disk[path].pixels)
                 /\ InGroup(light_covers, cover) <=>
                       GraySum(disk[path].pixels) >=
                          DefaultThreshold * Len(disk[path].pixels)

\* A thumbnail whose mean gray level is exactly 100, in the light group.
C8_Witness ==
    /\ pc = "done"
    /\ \E k \in 1..Len(light_covers) :
          LET path == light_covers[k].thumbnail_path_name
          IN  /\ PathExists(path)
              /\ GraySum(disk[path].pixels) =
                    DefaultThreshold * Len(disk[path].pixels)

\* The textbook HSV hue in degrees, as a fraction in [0, 360).
HueDegrees(r, g, b) ==
    LET maxc == Max3(r, g, b)
        delta == maxc - Min3(r, g, b)
    IN  IF delta = 0 THEN Rat(0, 1)
        ELSE IF maxc = r THEN Rat((60 * (g - b)) % (360 * delta), delta)
        ELSE IF maxc = g THEN Rat(60 * (b - r) + 120 * delta, delta)
        ELSE Rat(60 * (r - g) + 240 * delta, delta)

\* 380 + (degrees / 360) * 320
FromDegrees(d) ==
    Rat(WavelengthMin * 360 * d.den + d.num * (WavelengthMax - WavelengthMin),
        360 * d.den)

\* The part of C9 that does not concern (255,0,255).
MapperContract ==
    LET rgb == probe.rgb
        w == probe.wavelength
    IN  /\ RatEq(w, FromDegrees(HueDegrees(rgb[1], rgb[2], rgb[3])))
        /\ RatLeq(Rat(WavelengthMin, 1), w)
        /\ RatLess(w, Rat(WavelengthMax, 1))
        /\ rgb = <<255, 0, 0>> => RatEq(w, Rat(WavelengthMin, 1))
        /\ rgb = <<0, 255, 0>> => RatEq(w, Rat(3 * WavelengthMin + 320, 3))
        /\ rgb = <<0, 0, 255>> => RatEq(w, Rat(3 * WavelengthMin + 640, 3))
        /\ (rgb[1] = rgb[2] /\ rgb[2] = rgb[3]) => RatEq(w, Rat(WavelengthMin, 1))

\* Within a tenth of the 320 nm range of 700.
NearMax(w) ==
    RatLeq(Rat(10 * WavelengthMax - (WavelengthMax - WavelengthMin), 10), w)

\* C9 as stated: the result is 380 + hue * 320 with the standard hue, lies in
\* [380, 700], is 380, 380 + 320/3 and 380 + 640/3 for pure red, green and
\* blue and 380 for every achromatic triple, and (255,0,255) maps near 700
\* and not to 380.
C9_MagentaNearMax ==
    probe.applied =>
       /\ MapperContract
       /\ probe.rgb = <<255, 0, 255>> =>
             /\ NearMax(probe.wavelength)
             /\ ~RatEq(probe.wavelength, Rat(WavelengthMin, 1))

\* C9 amended: as stated, except that (255,0,255) has hue 5/6 and maps to
\* 380 + 320 * 5/6 = 646.67, which is neither 380 nor near 700; the result is
\* always below 700.
C9_HueToWavelength ==
    probe.applied =>
       /\ MapperContract
       /\ probe.rgb = <<255, 0, 255>> =>
             /\ RatEq(probe.wavelength, Rat(6 * WavelengthMin + 5 * 320, 6))
             /\ ~NearMax(probe.wavelength)

C9_Witness ==
    /\ probe.applied
    /\ probe.rgb = <<255, 0, 255>>
    /\ RatEq(probe.wavelength, Rat(1940, 3))

RecordFields ==
    {"volume", "issue", "image_path", "thumbnail_path", "dominant_color",
     "wavelength", "nature_url"}

\* C10 as stated: a generate_html call leaves covers_data as it was (every
\* field of every record, no field added), and a further call on the same
\* list leaves the dark and light groups as they were.
C10_RecordsImmutable ==
    [][(pc \in {"html", "done"} /\ pc' = "done") =>
          /\ covers_data' = covers_data
          /\ pc = "done" =>
                dark_covers' = dark_covers /\ light_covers' = light_covers
      ]_vars

\* C10 amended: generate_html changes the records in place.  It keeps the
\* list order and the fields volume, issue, image_path, dominant_color,
\* wavelength and nature_url, adds the field thumbnail_path_name holding the
\* thumbnail_path found, and replaces thumbnail_path by the file URI in every
\* record whose thumbnail exists.  A further call on the same list finds no
\* thumbnail and leaves both groups empty.
C10_RenderingRewritesThumbnailPath ==
    [][(pc \in {"html", "done"} /\ pc' = "done") =>
          /\ Len(covers_data') = Len(covers_data)
          /\ \A k \in 1..Len(covers_data) :
                LET old == covers_data[k]
                    new == covers_data'[k]
                IN  /\ DOMAIN new = RecordFields \cup {"thumbnail_path_name"}
                    /\ \A f \in RecordFields \ {"thumbnail_path"} : new[f] = old[f]
                    /\ new.thumbnail_path_name = old.thumbnail_path
                    /\ new.thumbnail_path =
                          IF PathExists(old.thumbnail_path)
                          THEN AsUri(old.thumbnail_path)
                          ELSE old.thumbnail_path
          /\ pc = "done" => dark_covers' = <<>> /\ light_covers' = <<>>
      ]_vars

\* After a second call: a record whose thumbnail_path is the URI, its
\* thumbnail on disk, and both groups empty.
C10_Witness ==
    /\ pc = "done"
    /\ renders = 2
    /\ dark_covers = <<>>
    /\ light_covers = <<>>
    /\ \E k \in 1..Len(covers_data) :
          /\ covers_data[k].thumbnail_path.scheme = "file_uri"
          /\ covers_data[k].thumbnail_path # csv[k].thumbnail_path
          /\ PathExists(csv[k].thumbnail_path)

====
